---- MODULE Spec2Model ----
(***************************************************************************)
(* Model of the two crates of the repository:                              *)
(*   rust/minesweeper/src/lib.rs          annotate and its helpers         *)
(*   compare-implemantations/src/*.rs     anagrams_for, versions 1 and 2   *)
(* Bytes and chars are their integer values.  Indices (row_index,          *)
(* col_index, target_row, ...) are 0-based as in the Rust code; a TLA+     *)
(* sequence is 1-based, so grid[r][c] of the code is grid[r + 1][c + 1].   *)
(***************************************************************************)
EXTENDS Integers, Sequences, FiniteSets

VARIABLES
    minefield,          \* annotate's argument: a sequence of rows of bytes
    result_grid,        \* the working grid of annotate (Vec<Vec<u8>>)
    row_index,          \* outer loop of Phase 2
    col_index,          \* inner loop of Phase 2
    direction,          \* which of the 8 unrolled process_neighbor_cell! comes next
    processed,          \* mines whose neighbours were updated (order-free specification)
    output,             \* the Vec<String> annotate returns
    pc,                 \* position in annotate / in the anagram driver
    word,               \* anagrams_for's first argument
    possible_anagrams,  \* anagrams_for's second argument
    result_v1,          \* what anagram::anagrams_for returned
    result_v2           \* what anagram_v2::anagrams_for returned

vars == <<minefield, result_grid, row_index, col_index, direction, processed,
          output, pc, word, possible_anagrams, result_v1, result_v2>>

anagram_vars == <<word, possible_anagrams, result_v1, result_v2>>

(***************************************************************************)
(* Bounds of the model.                                                    *)
(***************************************************************************)
\* rectangular mine/blank grids have at most this many cells (3x3 included)
MaxCells == 9
\* grids that also hold digits have at most this many cells
MaxDigitCells == 6
\* ragged grids: at most this many rows, each at most RaggedCols long
RaggedRows == 3
RaggedCols == 2
\* anagrams_for: the target's characters, plus one for every candidate and
\* one for each of its characters, are at most this many
MaxInputSize == 7

(***************************************************************************)
(* rust/minesweeper/src/lib.rs                                             *)
(***************************************************************************)
SPACE_CHAR == 32
MINE_CHAR == 42
DIGIT_ONE == 49

\* usize arithmetic wraps modulo 2^64 in the code.  TLC's integers are 32-bit,
\* so the word is modelled 30 bits wide; every index of the model is far
\* below it, and an underflowed index is far above every grid dimension.
USIZE_MODULUS == 1073741824

\* usize::wrapping_add_signed
wrapping_add_signed(x, offset) == (x + offset) % USIZE_MODULUS

\* current_value & 0xF0 and current_value & 0x0F on a u8
HighNibble(v) == (v \div 16) * 16
LowNibble(v) == v % 16

BoolAsU8(b) == IF b THEN 1 ELSE 0

\* a conditional update that forgets the "mine -> unchanged" case
increment_cell_value_no_mine_case(current_value) ==
    IF current_value = SPACE_CHAR THEN DIGIT_ONE ELSE (current_value + 1) % 256

\* counting starts from '0' instead of '1'
increment_cell_value_from_zero(current_value) ==
    LET is_not_mine == BoolAsU8(current_value # MINE_CHAR)
        is_empty_space == BoolAsU8(current_value = SPACE_CHAR)
        is_digit == BoolAsU8(HighNibble(current_value) = 48
                             /\ LowNibble(current_value) <= 8)
    IN  (current_value
           + is_not_mine * ((DIGIT_ONE - 1 - SPACE_CHAR) * is_empty_space + is_digit))
        % 256

\* the digit test accepts only '0'..'7': an '8' is no longer incremented
increment_cell_value_digit_lt_8(current_value) ==
    LET is_not_mine == BoolAsU8(current_value # MINE_CHAR)
        is_empty_space == BoolAsU8(current_value = SPACE_CHAR)
        is_digit == BoolAsU8(HighNibble(current_value) = 48
                             /\ LowNibble(current_value) < 8)
    IN  (current_value
           + is_not_mine * ((DIGIT_ONE - SPACE_CHAR) * is_empty_space + is_digit))
        % 256

\* a space becomes '1' but a digit is not incremented
increment_cell_value_no_digit(current_value) ==
    LET is_not_mine == BoolAsU8(current_value # MINE_CHAR)
        is_empty_space == BoolAsU8(current_value = SPACE_CHAR)
    IN  (current_value
           + is_not_mine * ((DIGIT_ONE - SPACE_CHAR) * is_empty_space))
        % 256

\* increment_cell_value: the new value of the cell
increment_cell_value(current_value) ==
    LET is_not_mine == BoolAsU8(current_value # MINE_CHAR)
        is_empty_space == BoolAsU8(current_value = SPACE_CHAR)
        is_digit == BoolAsU8(HighNibble(current_value) = 48
                             /\ LowNibble(current_value) <= 8)
    IN  (current_value
           + is_not_mine * ((DIGIT_ONE - SPACE_CHAR) * is_empty_space + is_digit))
        % 256

\* the 8 invocations of process_neighbor_cell!, in the order of the code
Offsets == << <<-1, -1>>, <<-1, 0>>, <<-1, 1>>,
              << 0, -1>>,            << 0, 1>>,
              << 1, -1>>, << 1, 0>>, << 1, 1>> >>

\* the neighbour coordinates wrap around the grid (a torus) instead of
\* wrapping around the machine word
process_neighbor_cell_torus(grid, mine_row, mine_col, max_rows, max_cols, offset) ==
    LET target_row == (mine_row + offset[1] + max_rows) % max_rows
        target_col == IF max_cols = 0 THEN 0
                      ELSE (mine_col + offset[2] + max_cols) % max_cols
    IN  IF (target_row < max_rows) /\ (target_col < max_cols)
        THEN IF target_row < Len(grid) /\ target_col < Len(grid[target_row + 1])
             THEN [panicked |-> FALSE,
                   grid |-> [grid EXCEPT ![target_row + 1][target_col + 1] =
                                             increment_cell_value(@)]]
             ELSE [panicked |-> TRUE, grid |-> grid]
        ELSE [panicked |-> FALSE, grid |-> grid]

\* one expansion of the macro process_neighbor_cell!: the grid after it, or
\* panicked when grid[target_row][target_col] indexes past the end of a Vec
process_neighbor_cell(grid, mine_row, mine_col, max_rows, max_cols, offset) ==
    LET target_row == wrapping_add_signed(mine_row, offset[1])
        target_col == wrapping_add_signed(mine_col, offset[2])
    IN  IF (target_row < max_rows) /\ (target_col < max_cols)
        THEN IF target_row < Len(grid) /\ target_col < Len(grid[target_row + 1])
             THEN [panicked |-> FALSE,
                   grid |-> [grid EXCEPT ![target_row + 1][target_col + 1] =
                                             increment_cell_value(@)]]
             ELSE [panicked |-> TRUE, grid |-> grid]
        ELSE [panicked |-> FALSE, grid |-> grid]

\* update_adjacent_cells after its first n macro expansions
RECURSIVE update_adjacent_prefix(_, _, _, _, _, _)
update_adjacent_prefix(grid, mine_row, mine_col, max_rows, max_cols, n) ==
    IF n = 0 THEN [panicked |-> FALSE, grid |-> grid]
    ELSE LET before == update_adjacent_prefix(grid, mine_row, mine_col,
                                              max_rows, max_cols, n - 1)
         IN  IF before.panicked THEN before
             ELSE process_neighbor_cell(before.grid, mine_row, mine_col,
                                        max_rows, max_cols, Offsets[n])

\* update_adjacent_cells: all 8 expansions
update_adjacent_cells(grid, mine_row, mine_col, max_rows, max_cols) ==
    update_adjacent_prefix(grid, mine_row, mine_col, max_rows, max_cols, Len(Offsets))

\* let total_rows = minefield.len(); let total_cols = minefield[0].len();
total_rows == Len(minefield)
total_cols == Len(minefield[1])

\* a UTF-8 continuation byte within lo..hi
Continuation(row_bytes, i, lo, hi) ==
    i <= Len(row_bytes) /\ row_bytes[i] >= lo /\ row_bytes[i] <= hi

\* whether the bytes from index i on are well-formed UTF-8: no overlong
\* form, no surrogate, nothing above U+10FFFF, no truncated sequence
RECURSIVE utf8_valid_from(_, _)
utf8_valid_from(row_bytes, i) ==
    IF i > Len(row_bytes) THEN TRUE
    ELSE LET b == row_bytes[i]
             tail1(lo, hi) == Continuation(row_bytes, i + 1, lo, hi)
             tail2 == Continuation(row_bytes, i + 2, 128, 191)
             tail3 == Continuation(row_bytes, i + 3, 128, 191)
         IN  IF b < 128 THEN utf8_valid_from(row_bytes, i + 1)
             ELSE IF b >= 194 /\ b <= 223
                  THEN tail1(128, 191) /\ utf8_valid_from(row_bytes, i + 2)
             ELSE IF b >= 224 /\ b <= 239
                  THEN /\ tail1(IF b = 224 THEN 160 ELSE 128,
                                IF b = 237 THEN 159 ELSE 191)
                       /\ tail2
                       /\ utf8_valid_from(row_bytes, i + 3)
             ELSE IF b >= 240 /\ b <= 244
                  THEN /\ tail1(IF b = 240 THEN 144 ELSE 128,
                                IF b = 244 THEN 143 ELSE 191)
                       /\ tail2
                       /\ tail3
                       /\ utf8_valid_from(row_bytes, i + 4)
             ELSE FALSE

\* String::from_utf8(row_bytes) is Ok, so that unwrap() does not panic
from_utf8_is_ok(row_bytes) == utf8_valid_from(row_bytes, 1)

\* annotate, up to the end of Phase 1: the empty minefield returns at once,
\* any other is copied byte for byte into result_grid
AnnotateEntry ==
    /\ pc = "call"
    /\ IF Len(minefield) = 0
       THEN /\ output' = <<>>
            /\ pc' = "done"
            /\ UNCHANGED result_grid
       ELSE /\ result_grid' = minefield
            /\ pc' = "scan"
            /\ UNCHANGED output
    /\ row_index' = 0
    /\ col_index' = 0
    /\ UNCHANGED <<minefield, direction, processed>>
    /\ UNCHANGED anagram_vars

\* Phase 2, one step of the two nested iterators: the cell read is the
\* caller's minefield, never result_grid
ScanCell ==
    /\ pc = "scan"
    /\ row_index < total_rows
    /\ IF col_index >= Len(minefield[row_index + 1])
       THEN /\ row_index' = row_index + 1
            /\ col_index' = 0
            /\ UNCHANGED <<pc, direction>>
       ELSE IF minefield[row_index + 1][col_index + 1] = MINE_CHAR
            THEN /\ pc' = "neighbors"
                 /\ direction' = 1
                 /\ UNCHANGED <<row_index, col_index>>
            ELSE /\ col_index' = col_index + 1
                 /\ UNCHANGED <<row_index, pc, direction>>
    /\ UNCHANGED <<minefield, result_grid, processed, output>>
    /\ UNCHANGED anagram_vars

\* Phase 2, inside update_adjacent_cells: the next macro expansion
ProcessNeighborCell ==
    /\ pc = "neighbors"
    /\ LET after == process_neighbor_cell(result_grid, row_index, col_index,
                                          total_rows, total_cols, Offsets[direction])
       IN  IF after.panicked
           THEN /\ pc' = "panic"
                /\ UNCHANGED <<result_grid, direction, col_index>>
           ELSE /\ result_grid' = after.grid
                /\ IF direction = Len(Offsets)
                   THEN /\ pc' = "scan"
                        /\ direction' = 1
                        /\ col_index' = col_index + 1
                   ELSE /\ direction' = direction + 1
                        /\ UNCHANGED <<pc, col_index>>
    /\ UNCHANGED <<minefield, row_index, processed, output>>
    /\ UNCHANGED anagram_vars

\* Phase 3: every row back to a String
CollectResult ==
    /\ pc = "scan"
    /\ row_index >= total_rows
    /\ IF \A r \in 1..Len(result_grid) : from_utf8_is_ok(result_grid[r])
       THEN /\ output' = result_grid
            /\ pc' = "done"
       ELSE /\ pc' = "panic"
            /\ UNCHANGED output
    /\ UNCHANGED <<minefield, result_grid, row_index, col_index, direction, processed>>
    /\ UNCHANGED anagram_vars

(***************************************************************************)
(* Inputs of annotate.                                                     *)
(***************************************************************************)
\* every rectangular grid over the alphabet with at most n cells, the grid
\* with no rows and the grids of empty rows included
RectGrids(alphabet, n) ==
    UNION { [1..rc[1] -> [1..rc[2] -> alphabet]] :
              rc \in {d \in (0..n) \X (0..n) : d[1] * d[2] <= n} }

\* every grid of at most n rows, each of any length up to m
RaggedGrids(alphabet, n, m) ==
    UNION { [1..r -> UNION { [1..c -> alphabet] : c \in 0..m }] : r \in 0..n }

MineBlank == {SPACE_CHAR, MINE_CHAR}
\* blank, mine and the digits '1', '7', '8'
MineBlankDigit == {SPACE_CHAR, MINE_CHAR, 49, 55, 56}

InitAnnotate(grids) ==
    /\ minefield \in grids
    /\ result_grid = <<>>
    /\ row_index = 0
    /\ col_index = 0
    /\ direction = 1
    /\ processed = {}
    /\ output = <<>>
    /\ pc = "call"
    /\ word = <<>>
    /\ possible_anagrams = <<>>
    /\ result_v1 = {}
    /\ result_v2 = {}

Init == InitAnnotate(RectGrids(MineBlank, MaxCells))

Next ==
    \/ AnnotateEntry
    \/ ScanCell
    \/ ProcessNeighborCell
    \/ CollectResult

\* annotate on rectangular mine/blank grids
Spec == Init /\ [][Next]_vars

\* annotate on rectangular grids that also hold digits
InitDigits == InitAnnotate(RectGrids(MineBlankDigit, MaxDigitCells))
SpecDigits == InitDigits /\ [][Next]_vars

\* annotate on grids whose rows may differ in length
InitRagged == InitAnnotate(RaggedGrids(MineBlank, RaggedRows, RaggedCols))
SpecRagged == InitRagged /\ [][Next]_vars

(***************************************************************************)
(* annotate with the order of the Phase 2 loop left open: any mine of the  *)
(* input not yet processed may be the next one.  The row-major order of    *)
(* the code is one of the orders.  update_adjacent_cells is one step here. *)
(***************************************************************************)
\* the positions (row, column), 0-based, of a grid
Positions(grid) ==
    UNION { { <<r, c>> : c \in 0..(Len(grid[r + 1]) - 1) } : r \in 0..(Len(grid) - 1) }

\* the positions of the mines of a grid: current_cell == MINE_CHAR
Mines(grid) == { p \in Positions(grid) : grid[p[1] + 1][p[2] + 1] = MINE_CHAR }

ProcessAnyMine ==
    /\ pc = "scan"
    /\ \E mine \in Mines(minefield) \ processed :
         LET after == update_adjacent_cells(result_grid, mine[1], mine[2],
                                            total_rows, total_cols)
         IN  IF after.panicked
             THEN /\ pc' = "panic"
                  /\ UNCHANGED <<result_grid, processed>>
             ELSE /\ result_grid' = after.grid
                  /\ processed' = processed \cup {mine}
                  /\ UNCHANGED pc
    /\ UNCHANGED <<minefield, row_index, col_index, direction, output>>
    /\ UNCHANGED anagram_vars

CollectAnyOrder ==
    /\ pc = "scan"
    /\ Mines(minefield) \subseteq processed
    /\ IF \A r \in 1..Len(result_grid) : from_utf8_is_ok(result_grid[r])
       THEN /\ output' = result_grid
            /\ pc' = "done"
       ELSE /\ pc' = "panic"
            /\ UNCHANGED output
    /\ UNCHANGED <<minefield, result_grid, row_index, col_index, direction, processed>>
    /\ UNCHANGED anagram_vars

InitAnyOrder == InitAnnotate(RectGrids(MineBlank, MaxCells))

NextAnyOrder ==
    \/ AnnotateEntry
    \/ ProcessAnyMine
    \/ CollectAnyOrder

SpecAnyOrder == InitAnyOrder /\ [][NextAnyOrder]_vars

(***************************************************************************)
(* compare-implemantations/src/anagram.rs and anagram_v2.rs                *)
(* A string is the sequence of its chars (Unicode scalar values).          *)
(***************************************************************************)
\* 'A', 'a', 'k' and U+212A KELVIN SIGN, whose lowercase is 'k' and whose
\* UTF-8 encoding is 3 bytes long
Alphabet == {65, 97, 107, 8490}

\* char::to_lowercase on the chars of the alphabet and on ASCII
char_to_lowercase(c) ==
    IF c >= 65 /\ c <= 90 THEN c + 32
    ELSE IF c = 8490 THEN 107
    ELSE c

\* str::to_lowercase
to_lowercase(s) == [i \in 1..Len(s) |-> char_to_lowercase(s[i])]

\* char::len_utf8
len_utf8(c) ==
    IF c < 128 THEN 1 ELSE IF c < 2048 THEN 2 ELSE IF c < 65536 THEN 3 ELSE 4

\* str::len: the length in bytes of the UTF-8 encoding
RECURSIVE str_len(_)
str_len(s) == IF s = <<>> THEN 0 ELSE len_utf8(Head(s)) + str_len(Tail(s))

\* s.chars().count()
chars_count(s) == Len(s)

\* x put at its place in an ascending sequence
RECURSIVE insert_sorted(_, _)
insert_sorted(x, sorted) ==
    IF sorted = <<>> THEN <<x>>
    ELSE IF x <= Head(sorted) THEN <<x>> \o sorted
    ELSE <<Head(sorted)>> \o insert_sorted(x, Tail(sorted))

\* get_sorted: the chars of the word in ascending order (sort_unstable)
RECURSIVE get_sorted(_)
get_sorted(w) ==
    IF w = <<>> THEN <<>> ELSE insert_sorted(Head(w), get_sorted(Tail(w)))

\* anagram::anagrams_for: the three conditions in one conjunction
anagrams_for_v1(w, candidates) ==
    LET word_sorted == get_sorted(to_lowercase(w))
        keep(anagram) ==
            /\ str_len(anagram) = str_len(w)
            /\ to_lowercase(anagram) # to_lowercase(w)
            /\ word_sorted = get_sorted(to_lowercase(anagram))
    IN  { candidates[i] : i \in { j \in 1..Len(candidates) : keep(candidates[j]) } }

\* the length test counts chars instead of bytes
anagrams_for_v2_chars_count(w, candidates) ==
    LET lower_word == to_lowercase(w)
        word_sorted == get_sorted(lower_word)
        word_length == chars_count(w)
        keep(anagram_candidate) ==
            IF chars_count(anagram_candidate) # word_length THEN FALSE
            ELSE LET lower_anagram_candidate == to_lowercase(anagram_candidate)
                 IN  /\ lower_anagram_candidate # lower_word
                     /\ word_sorted = get_sorted(lower_anagram_candidate)
    IN  { candidates[i] : i \in { j \in 1..Len(candidates) : keep(candidates[j]) } }

\* the target itself, in another casing, is not excluded
anagrams_for_v2_keeps_self(w, candidates) ==
    LET lower_word == to_lowercase(w)
        word_sorted == get_sorted(lower_word)
        word_length == str_len(w)
        keep(anagram_candidate) ==
            IF str_len(anagram_candidate) # word_length THEN FALSE
            ELSE LET lower_anagram_candidate == to_lowercase(anagram_candidate)
                 IN  word_sorted = get_sorted(lower_anagram_candidate)
    IN  { candidates[i] : i \in { j \in 1..Len(candidates) : keep(candidates[j]) } }

\* anagram_v2::anagrams_for: early return on a length mismatch, the
\* lowercased target computed once
anagrams_for_v2(w, candidates) ==
    LET lower_word == to_lowercase(w)
        word_sorted == get_sorted(lower_word)
        word_length == str_len(w)
        keep(anagram_candidate) ==
            IF str_len(anagram_candidate) # word_length THEN FALSE
            ELSE LET lower_anagram_candidate == to_lowercase(anagram_candidate)
                 IN  /\ lower_anagram_candidate # lower_word
                     /\ word_sorted = get_sorted(lower_anagram_candidate)
    IN  { candidates[i] : i \in { j \in 1..Len(candidates) : keep(candidates[j]) } }

\* lib.rs: pub use anagram::anagrams_for as anagrams_for_v1
CallV1 ==
    /\ pc = "call_v1"
    /\ result_v1' = anagrams_for_v1(word, possible_anagrams)
    /\ pc' = "call_v2"
    /\ UNCHANGED <<word, possible_anagrams, result_v2>>
    /\ UNCHANGED <<minefield, result_grid, row_index, col_index, direction,
                   processed, output>>

\* lib.rs: pub use anagram_v2::anagrams_for as anagrams_for_v2
CallV2 ==
    /\ pc = "call_v2"
    /\ result_v2' = anagrams_for_v2(word, possible_anagrams)
    /\ pc' = "done"
    /\ UNCHANGED <<word, possible_anagrams, result_v1>>
    /\ UNCHANGED <<minefield, result_grid, row_index, col_index, direction,
                   processed, output>>

\* the strings of at most n chars
Words(n) == UNION { [1..k -> Alphabet] : k \in 0..n }

\* the candidate lists of size at most budget: a candidate of k chars has
\* size k + 1
RECURSIVE CandidateLists(_)
CandidateLists(budget) ==
    IF budget <= 0 THEN {<<>>}
    ELSE {<<>>} \cup
         UNION { { <<c>> \o rest : rest \in CandidateLists(budget - 1 - Len(c)) } :
                   c \in Words(budget - 1) }

InitAnagram ==
    /\ word \in Words(MaxInputSize)
    /\ possible_anagrams \in CandidateLists(MaxInputSize - Len(word))
    /\ result_v1 = {}
    /\ result_v2 = {}
    /\ pc = "call_v1"
    /\ minefield = <<>>
    /\ result_grid = <<>>
    /\ row_index = 0
    /\ col_index = 0
    /\ direction = 1
    /\ processed = {}
    /\ output = <<>>

NextAnagram ==
    \/ CallV1
    \/ CallV2

SpecAnagram == InitAnagram /\ [][NextAnagram]_vars

(***************************************************************************)
(* Vocabulary of the properties: neighbourhood and counts in ordinary      *)
(* integer arithmetic, independent of the code above.                      *)
(***************************************************************************)
Cell(grid, p) == grid[p[1] + 1][p[2] + 1]

Abs(x) == IF x < 0 THEN -x ELSE x

\* the up-to-8 positions of the grid around p
Neighbours(grid, p) ==
    { q \in Positions(grid) :
        q # p /\ Abs(q[1] - p[1]) <= 1 /\ Abs(q[2] - p[2]) <= 1 }

\* how many positions of the set S are neighbours of p
AdjacentIn(grid, p, S) == Cardinality(Neighbours(grid, p) \cap S)

\* the byte that shows a count: ' ' for none, else the digit
CountByte(k) == IF k = 0 THEN SPACE_CHAR ELSE DIGIT_ONE + (k - 1)

Digits1To8 == { DIGIT_ONE + k : k \in 0..7 }
OutputAlphabet == {SPACE_CHAR, MINE_CHAR} \cup Digits1To8

Min(a, b) == IF a <= b THEN a ELSE b

\* the annotation of a grid as a function of the input alone
Annotated(grid) ==
    [r \in 1..Len(grid) |->
        [c \in 1..Len(grid[r]) |->
            IF grid[r][c] = MINE_CHAR THEN MINE_CHAR
            ELSE CountByte(AdjacentIn(grid, <<r - 1, c - 1>>, Mines(grid)))]]

\* (row, column) a comes before b in row-major order
RowMajorBefore(a, b) == a[1] < b[1] \/ (a[1] = b[1] /\ a[2] < b[2])

(***************************************************************************)
(* C1                                                                      *)
(***************************************************************************)
\* C1: on a rectangular mine/blank grid, the returned grid holds at every
\* position that is blank in the input ' ' when no neighbour is a mine and
\* otherwise the digit of the exact number k of neighbouring mines, k <= 8.
C1_BlankCellsHoldExactCount ==
    pc = "done" =>
        \A p \in Positions(minefield) :
            Cell(minefield, p) = SPACE_CHAR =>
                LET k == AdjacentIn(minefield, p, Mines(minefield))
                IN  /\ k <= 8
                    /\ Cell(output, p) = CountByte(k)

\* annotate returned a grid with a blank cell surrounded by 8 mines, shown
\* as '8', and another blank cell with no mine around it
C1_Witness ==
    /\ pc = "done"
    /\ \E p \in Positions(minefield) :
         /\ Cell(minefield, p) = SPACE_CHAR
         /\ AdjacentIn(minefield, p, Mines(minefield)) = 8
         /\ Cell(output, p) = DIGIT_ONE + 7

(***************************************************************************)
(* C2                                                                      *)
(***************************************************************************)
\* C2: a position that holds a mine in the input holds '*' in the working
\* grid in every intermediate state of annotate (after every processed mine
\* and every neighbour increment) and in the returned grid.
C2_MinesNeverChange ==
    /\ pc \in {"scan", "neighbors"} =>
         \A p \in Mines(minefield) : Cell(result_grid, p) = MINE_CHAR
    /\ (pc = "done" /\ Len(minefield) > 0) =>
         \A p \in Mines(minefield) :
            Cell(result_grid, p) = MINE_CHAR /\ Cell(output, p) = MINE_CHAR

\* in the middle of update_adjacent_cells, increment_cell_value has already
\* been applied to a neighbour that is itself a mine
C2_Witness ==
    /\ pc = "neighbors"
    /\ \E d \in 1..(direction - 1) :
         <<row_index + Offsets[d][1], col_index + Offsets[d][2]>> \in Mines(minefield)

(***************************************************************************)
(* C3                                                                      *)
(***************************************************************************)
\* C3: on a rectangular mine/blank grid (the grid with no rows included)
\* annotate returns; the result has as many rows as the input, every row as
\* long as the input's, and only the bytes ' ', '*', '1'..'8'.
C3_ShapeAndAlphabet ==
    /\ pc # "panic"
    /\ pc = "done" =>
         /\ Len(output) = Len(minefield)
         /\ \A r \in 1..Len(minefield) :
              /\ Len(output[r]) = Len(minefield[r])
              /\ \A c \in 1..Len(output[r]) : output[r][c] \in OutputAlphabet

\* annotate returned a grid of several rows that holds a blank, a mine and
\* a digit
C3_Witness ==
    /\ pc = "done"
    /\ Len(minefield) >= 2
    /\ \E p \in Positions(output) : Cell(output, p) = SPACE_CHAR
    /\ \E p \in Positions(output) : Cell(output, p) = MINE_CHAR
    /\ \E p \in Positions(output) : Cell(output, p) \in Digits1To8

(***************************************************************************)
(* C5                                                                      *)
(***************************************************************************)
\* C5 as stated: on a rectangular grid that already holds digits, annotate
\* does not crash, and every mine and every digit '1'..'8' of the input is
\* at its position in the output unchanged, next to mines or not.
C5_DigitsPassThrough ==
    /\ pc # "panic"
    /\ pc = "done" =>
         \A p \in Positions(minefield) :
            Cell(minefield, p) \in ({MINE_CHAR} \cup Digits1To8) =>
                Cell(output, p) = Cell(minefield, p)

\* C5 amended: annotate does not crash and mines pass through unchanged; a
\* digit d of the input with m neighbouring mines comes out as the byte
\* d + m, capped at '9', so it is unchanged only when no mine is next to it.
C5_DigitsCountAdjacentMines ==
    /\ pc # "panic"
    /\ pc = "done" =>
         \A p \in Positions(minefield) :
            /\ Cell(minefield, p) = MINE_CHAR => Cell(output, p) = MINE_CHAR
            /\ Cell(minefield, p) \in Digits1To8 =>
                 Cell(output, p) =
                     Min(Cell(minefield, p) + AdjacentIn(minefield, p, Mines(minefield)),
                         DIGIT_ONE + 8)

\* annotate returned a grid in which an input digit next to at least two
\* mines came out changed
C5_Witness ==
    /\ pc = "done"
    /\ \E p \in Positions(minefield) :
         /\ Cell(minefield, p) \in Digits1To8
         /\ AdjacentIn(minefield, p, Mines(minefield)) >= 2
         /\ Cell(output, p) # Cell(minefield, p)

(***************************************************************************)
(* C6                                                                      *)
(***************************************************************************)
\* the grid [" * ", "   ", " * "]
Scenario2Input ==
    << <<SPACE_CHAR, MINE_CHAR, SPACE_CHAR>>,
       <<SPACE_CHAR, SPACE_CHAR, SPACE_CHAR>>,
       <<SPACE_CHAR, MINE_CHAR, SPACE_CHAR>> >>

\* C6 as stated: annotate([" * ", "   ", " * "]) = [" 1 ", " 2 ", " 1 "].
C6_Scenario2AsStated ==
    (pc = "done" /\ minefield = Scenario2Input) =>
        output = << <<SPACE_CHAR, DIGIT_ONE, SPACE_CHAR>>,
                    <<SPACE_CHAR, DIGIT_ONE + 1, SPACE_CHAR>>,
                    <<SPACE_CHAR, DIGIT_ONE, SPACE_CHAR>> >>

\* C6 amended: annotate([" * ", "   ", " * "]) = ["1*1", "222", "1*1"].
C6_Scenario2 ==
    (pc = "done" /\ minefield = Scenario2Input) =>
        output = << <<DIGIT_ONE, MINE_CHAR, DIGIT_ONE>>,
                    <<DIGIT_ONE + 1, DIGIT_ONE + 1, DIGIT_ONE + 1>>,
                    <<DIGIT_ONE, MINE_CHAR, DIGIT_ONE>> >>

\* annotate returned from the call on [" * ", "   ", " * "]
C6_Witness == pc = "done" /\ minefield = Scenario2Input

(***************************************************************************)
(* C7                                                                      *)
(***************************************************************************)
\* C7: on a grid whose rows differ in length annotate never indexes past
\* the end of a row part-way through the computation.
C7_NoIndexPastRowEnd == pc # "panic"

(***************************************************************************)
(* C8                                                                      *)
(***************************************************************************)
\* C8: whatever subset of the input's mines has been processed, in whatever
\* order, every blank cell of the input holds in the working grid ' ' when
\* no processed mine is next to it and otherwise the digit of the number of
\* processed mines next to it; the returned grid is a function of the input
\* alone, the same for every order.
C8_CountsOfProcessedMines ==
    /\ pc \in {"scan", "done"} =>
         \A p \in Positions(minefield) :
            Cell(minefield, p) = SPACE_CHAR =>
                Cell(result_grid, p) = CountByte(AdjacentIn(minefield, p, processed))
    /\ pc = "done" => output = Annotated(minefield)

\* a mine was processed before a mine that precedes it in row-major order,
\* and a blank cell next to both holds the count of the processed one only
C8_Witness ==
    /\ pc = "scan"
    /\ \E m \in processed, n \in Mines(minefield) \ processed :
         /\ RowMajorBefore(n, m)
         /\ \E p \in Neighbours(minefield, m) \cap Neighbours(minefield, n) :
              /\ Cell(minefield, p) = SPACE_CHAR
              /\ Cell(result_grid, p) = DIGIT_ONE

(***************************************************************************)
(* C9                                                                      *)
(***************************************************************************)
\* C9: a step of update_adjacent_cells for the mine at (r, c) changes the
\* working grid at most at the position (r + dr, c + dc) of ordinary integer
\* arithmetic, and only when 0 <= r + dr < rows and 0 <= c + dc < cols:
\* an underflowed or overflowed coordinate never lands on the opposite edge.
C9_NoWraparound ==
    [][pc = "neighbors" =>
         LET target == <<row_index + Offsets[direction][1],
                         col_index + Offsets[direction][2]>>
         IN  \A p \in Positions(result_grid) :
                Cell(result_grid', p) # Cell(result_grid, p) =>
                    /\ p = target
                    /\ 0 <= target[1] /\ target[1] < total_rows
                    /\ 0 <= target[2] /\ target[2] < total_cols]_vars

\* the mine in the corner (0, 0) of a grid with several rows and columns:
\* the three neighbours of row -1 and the one of column -1 have been passed
C9_Witness ==
    /\ pc = "neighbors"
    /\ row_index = 0
    /\ col_index = 0
    /\ direction = 5
    /\ Len(minefield) >= 2
    /\ Len(minefield[1]) >= 2
    /\ \E p \in Positions(minefield) :
         p[1] = Len(minefield) - 1 /\ Cell(minefield, p) = SPACE_CHAR

(***************************************************************************)
(* C4                                                                      *)
(***************************************************************************)
\* the condition of the specification on a candidate; "length" is the
\* length len() gives, in bytes of UTF-8
IsAnagramOf(candidate, target) ==
    /\ str_len(candidate) = str_len(target)
    /\ get_sorted(to_lowercase(candidate)) = get_sorted(to_lowercase(target))
    /\ to_lowercase(candidate) # to_lowercase(target)

Candidates == { possible_anagrams[i] : i \in 1..Len(possible_anagrams) }

\* C4: a candidate is in the set anagrams_for returns (either version) if
\* and only if it is as long as the target, its sorted lowercased chars are
\* the target's and its lowercase form is not the target's; the set holds
\* candidates as they were given, in their original casing.
C4_ResultIsExactlyTheAnagrams ==
    pc = "done" =>
        /\ result_v2 \subseteq Candidates
        /\ result_v1 \subseteq Candidates
        /\ \A c \in Candidates :
             /\ c \in result_v2 <=> IsAnagramOf(c, word)
             /\ c \in result_v1 <=> IsAnagramOf(c, word)

\* anagrams_for returned a candidate that is not all lowercase, and left
\* out another candidate
C4_Witness ==
    /\ pc = "done"
    /\ \E c \in result_v2 : to_lowercase(c) # c
    /\ Candidates \ result_v2 # {}

(***************************************************************************)
(* C10                                                                     *)
(***************************************************************************)
\* C10: anagrams_for_v1 and anagrams_for_v2 return the same set for every
\* target and every candidate list.
C10_VersionsAgree == pc = "done" => result_v1 = result_v2

\* both versions have returned, and both left out a candidate that passes
\* the two lowercase tests and has as many chars as the target, but another
\* length in bytes: the early return of version 2 decided it
C10_Witness ==
    /\ pc = "done"
    /\ \E c \in Candidates :
         /\ chars_count(c) = chars_count(word)
         /\ str_len(c) # str_len(word)
         /\ to_lowercase(c) # to_lowercase(word)
         /\ get_sorted(to_lowercase(c)) = get_sorted(to_lowercase(word))
         /\ c \notin result_v1
         /\ c \notin result_v2

====
